---- MODULE Spec2Model ----
(***************************************************************************)
(* Model of app.py: the LinkedIn Network Synergy Analyzer.                 *)
(*                                                                         *)
(* Text is modelled as a sequence of one-character strings, so that        *)
(* str.strip, str.lower and the `in` substring test are computed, not      *)
(* assumed.  A table cell as pandas delivers it is a record                *)
(* [kind, text]: kind "str" with its text, or kind "nan" for a missing     *)
(* value (float NaN).                                                      *)
(***************************************************************************)
EXTENDS Integers, Sequences, FiniteSets, TLC

VARIABLES
    \* ---- one run of main() ----
    user_profile,             \* dict built at lines 64-68
    uploaded_file,            \* None, or the uploaded file as a sequence of lines
    file_pos,                 \* read position of uploaded_file, counted in lines
    pc,                       \* position of the run inside main()
    sep_i, skip_i,            \* indexes of the two for-loops at lines 81-82
    df,                       \* the DataFrame variable df (None until a read succeeds)
    attempts,                 \* history: every pd.read_csv call made, in order, with the
                              \* column count it returned (-1 when it raised)
    connections_list,         \* df.to_dict('records'), line 100
    conn_i,                   \* index of the for-loop at line 103
    synergistic_connections,  \* list built at lines 101-109
    calls,                    \* history: the arguments of every find_synergy call
    synergy_counts,           \* dict built at lines 122-127
    rendered,                 \* what the run has put on the page
    outcome,                  \* how the run ended
    target,                   \* the career-planner inputs, lines 162 and 165
    graph,                    \* G_path, lines 172-197
    \* ---- one isolated call of find_synergy ----
    fs_profile, fs_connection, fs_pc, fs_ret, fs_after

main_vars == <<user_profile, uploaded_file, file_pos, pc, sep_i, skip_i, df, attempts,
               connections_list, conn_i, synergistic_connections, calls,
               synergy_counts, rendered, outcome, target, graph>>
fs_vars == <<fs_profile, fs_connection, fs_pc, fs_ret, fs_after>>
vars == <<main_vars, fs_vars>>

None == [kind |-> "none"]

(***************************************************************************)
(* Python str operations used by the program.                              *)
(***************************************************************************)
UpperChars == <<"A","B","C","D","E","F","G","H","I","J","K","L","M","N","O","P","Q","R","S","T","U","V","W","X","Y","Z">>
LowerChars == <<"a","b","c","d","e","f","g","h","i","j","k","l","m","n","o","p","q","r","s","t","u","v","w","x","y","z">>
Whitespace == {" ", "\t"}

\* str.lower on one character
lower_char(c) ==
    IF \E i \in 1..Len(UpperChars) : UpperChars[i] = c
    THEN LowerChars[CHOOSE i \in 1..Len(UpperChars) : UpperChars[i] = c]
    ELSE c

\* str.lower
lower(s) == [i \in 1..Len(s) |-> lower_char(s[i])]

RECURSIVE lstrip(_)
lstrip(s) == IF s # <<>> /\ Head(s) \in Whitespace THEN lstrip(Tail(s)) ELSE s

RECURSIVE rstrip(_)
rstrip(s) ==
    IF s # <<>> /\ s[Len(s)] \in Whitespace THEN rstrip(SubSeq(s, 1, Len(s) - 1)) ELSE s

\* str.strip
strip(s) == rstrip(lstrip(s))

\* Python's `a in b` on two strings
str_in(a, b) == \E i \in 0..(Len(b) - Len(a)) : SubSeq(b, i + 1, i + Len(a)) = a

\* truth value of a Python string
truthy(s) == s # <<>>

(***************************************************************************)
(* Values of a DataFrame cell / dict entry.                                *)
(***************************************************************************)
Str(s) == [kind |-> "str", text |-> s]
NaN == [kind |-> "nan", text |-> <<>>]

\* str(value): a string is itself, float NaN prints as "nan"
str(v) == IF v.kind = "nan" THEN <<"n","a","n">> ELSE v.text

\* dict.get(key, default)
dict_get(d, key, default) == IF key \in DOMAIN d THEN d[key] ELSE default

(***************************************************************************)
(* find_synergy, lines 13-52.                                              *)
(***************************************************************************)
complementary_roles ==
    (<<"p","r","o","d","u","c","t"," ","m","a","n","a","g","e","r">> :> << <<"s","o","f","t","w","a","r","e"," ","e","n","g","i","n","e","e","r">>, <<"u","x"," ","d","e","s","i","g","n","e","r">>, <<"d","a","t","a"," ","a","n","a","l","y","s","t">> >>)
    @@ (<<"d","a","t","a"," ","a","n","a","l","y","s","t">> :> << <<"d","a","t","a"," ","s","c","i","e","n","t","i","s","t">>, <<"b","u","s","i","n","e","s","s"," ","a","n","a","l","y","s","t">>, <<"f","i","n","a","n","c","i","a","l"," ","a","n","a","l","y","s","t">> >>)

\* lines 22-24: user_profile.get(key, '').strip().lower()
norm_user(user_profile_, key) == lower(strip(dict_get(user_profile_, key, <<>>)))

norm_conn_no_lower(connection, key) == strip(str(dict_get(connection, key, Str(<<>>))))

\* lines 26-27: str(connection.get(key, '')).strip().lower()
norm_conn(connection, key) == lower(strip(str(dict_get(connection, key, Str(<<>>)))))

\* lines 47-50: for role in roles: if role in conn_position: ... break
RECURSIVE role_loop(_, _, _)
role_loop(roles, i, conn_position) ==
    IF i > Len(roles) THEN FALSE
    ELSE IF str_in(roles[i], conn_position) THEN TRUE
    ELSE role_loop(roles, i + 1, conn_position)

title_match_one_way(user_title, conn_position) ==
    truthy(user_title) /\ str_in(user_title, conn_position)

\* line 38
title_match_test(user_title, conn_position) ==
    truthy(user_title)
    /\ (str_in(user_title, conn_position) \/ str_in(conn_position, user_title))

find_synergy(user_profile_, connection) ==
    LET user_company  == norm_user(user_profile_, "company")
        user_industry == norm_user(user_profile_, "industry")
        user_title    == norm_user(user_profile_, "title")
        conn_company  == norm_conn(connection, "company")
        conn_position == norm_conn(connection, "position")
    IN  [ company |->
              truthy(conn_company) /\ truthy(user_company) /\ conn_company = user_company,
          industry |->
              truthy(user_industry)
              /\ (str_in(user_industry, conn_company) \/ str_in(user_industry, conn_position)),
          title_match |-> title_match_test(user_title, conn_position),
          title_complementary |->
              IF user_title \in DOMAIN complementary_roles
              THEN role_loop(complementary_roles[user_title], 1, conn_position)
              ELSE FALSE ]

\* any(synergy_info.values()), line 107
any_synergy(s) == s.company \/ s.industry \/ s.title_match \/ s.title_complementary

\* One call of find_synergy: the returned dict and the two argument objects as the
\* call leaves them (the body only reads them: .get, str(), .strip(), .lower()
\* build new strings).
find_synergy_call(user_profile_, connection) ==
    [ ret |-> find_synergy(user_profile_, connection),
      user_profile |-> user_profile_,
      connection |-> connection ]

(***************************************************************************)
(* pd.read_csv(uploaded_file, sep=sep, skiprows=skiprows,                  *)
(*             on_bad_lines='skip'), line 85.                              *)
(*                                                                         *)
(* The file is a sequence of lines, a line a sequence of characters.  The  *)
(* reader starts at the file's read position, drops the first `skiprows`   *)
(* lines, ignores blank lines, takes the next line as the header and the   *)
(* rest as data rows.  It raises EmptyDataError when no header line is     *)
(* left and ParserError when a field opens a quote that is never closed    *)
(* (EOF inside string).  The first data row fixes the row width: a first   *)
(* row longer than the header turns its leading fields into the index.     *)
(* Later rows that are too long are bad lines and are skipped; short rows  *)
(* are padded with missing values.  Empty cells and the NA spellings are   *)
(* delivered as NaN.  The files of this model hold no digits and at most   *)
(* one quote character, so type inference and closed quotes do not arise.  *)
(***************************************************************************)
Quote == "\""

\* the fields of one line: the runs of characters between the delimiters
split(line, sep) ==
    LET at    == {i \in 1..Len(line) : line[i] = sep}
        cut(n) == IF n = 0 THEN 0
                  ELSE IF n = Cardinality(at) + 1 THEN Len(line) + 1
                  ELSE CHOOSE p \in at : Cardinality({q \in at : q < p}) = n - 1
    IN  [n \in 1..(Cardinality(at) + 1) |-> SubSeq(line, cut(n - 1) + 1, cut(n) - 1)]

na_values == { <<>>, <<"N","A">>, <<"N","/","A">>, <<"N","a","N">>, <<"n","a","n">>, <<"n","u","l","l">>, <<"N","U","L","L">>, <<"n","/","a">>, <<"N","o","n","e">> }

to_cell(field) == IF field \in na_values THEN NaN ELSE Str(field)

pad(fields, width) ==
    [j \in 1..width |-> IF j <= Len(fields) THEN fields[j] ELSE <<>>]

has_quote(line) == \E i \in 1..Len(line) : line[i] = Quote

opens_quote(fields) ==
    \E j \in 1..Len(fields) :
        fields[j] # <<>> /\ Head(fields[j]) = Quote /\ ~has_quote(Tail(fields[j]))

Max(a, b) == IF a >= b THEN a ELSE b
Min(a, b) == IF a <= b THEN a ELSE b

ParseError(name) == [kind |-> "error", error |-> name]

read_csv(file, pos, sep, skiprows) ==
    LET avail   == SubSeq(file, pos + 1, Len(file))
        nskip   == Min(skiprows, Len(avail))
        skipped == SubSeq(avail, 1, nskip)
        \* a quote opened inside a skipped line swallows the rest of the input
        after   == IF \E i \in 1..Len(skipped) : has_quote(skipped[i])
                   THEN <<>>
                   ELSE SubSeq(avail, nskip + 1, Len(avail))
        rest    == SelectSeq(after, LAMBDA l : l # <<>>)
        fields  == [i \in 1..Len(rest) |-> split(rest[i], sep)]
    IN  IF rest = <<>> THEN ParseError("EmptyDataError")
        ELSE IF \E i \in 1..Len(rest) : opens_quote(fields[i])
             THEN ParseError("ParserError")
        ELSE
          LET header == fields[1]
              data   == Tail(fields)
              width  == IF data = <<>> THEN Len(header)
                        ELSE Max(Len(header), Len(data[1]))
              lead   == width - Len(header)
              good   == SelectSeq(data, LAMBDA r : Len(r) <= width)
          IN  [ kind    |-> "df",
                columns |-> header,
                rows    |-> [i \in 1..Len(good) |->
                               [j \in 1..Len(header) |->
                                   to_cell(pad(good[i], width)[lead + j])]] ]

\* df.shape[1]
shape1(d) == Len(d.columns)

(***************************************************************************)
(* main(), lines 55-232: one run of the script.                            *)
(***************************************************************************)
\* line 81
Seps == << ";", ",", "\t" >>
\* line 82
Skips == << 0, 3 >>
\* line 98
column_names ==
    << "first_name", "last_name", "url", "email_address", "company", "position",
       "connected_on" >>

File(lines) == [kind |-> "file", lines |-> lines]

gate_any(uploaded_file_, user_profile_) ==
    /\ uploaded_file_.kind # "none"
    /\ \E k \in DOMAIN user_profile_ : truthy(user_profile_[k])

\* line 74: uploaded_file is not None and all(user_profile.values())
gate(uploaded_file_, user_profile_) ==
    /\ uploaded_file_.kind # "none"
    /\ \A k \in DOMAIN user_profile_ : truthy(user_profile_[k])

seek_nowhere(pos, offset) == pos

\* line 84: uploaded_file.seek(0)
seek(pos, offset) == offset

\* lines 86, 90: df is not None and df.shape[1] > 1
accepts(d) == d.kind = "df" /\ shape1(d) > 1

\* line 100: df.to_dict('records')
to_dict(d) ==
    [i \in 1..Len(d.rows) |->
        [k \in {d.columns[j] : j \in 1..Len(d.columns)} |->
            d.rows[i][CHOOSE j \in 1..Len(d.columns) : d.columns[j] = k]]]

set_columns_swapped(d, names) ==
    [d EXCEPT !.columns = [j \in 1..Len(names) |-> names[Len(names) + 1 - j]]]

\* line 98: df.columns = [...]  (the caller has checked the lengths agree)
set_columns(d, names) == [d EXCEPT !.columns = names]

retains_all(synergy_info) == TRUE

\* line 107: if any(synergy_info.values())
retains(synergy_info) == any_synergy(synergy_info)

\* lines 123-125: sum(1 for c in synergistic_connections if c['synergy'][...])
Count(list, keys) ==
    Cardinality({i \in 1..Len(list) : \E k \in keys : list[i]["synergy"][k]})

\* line 126
other_count(total, kept) == Len(total) - Len(kept)

\* lines 122-127
make_synergy_counts(total, kept) ==
    [ company  |-> Count(kept, {"company"}),
      industry |-> Count(kept, {"industry"}),
      title    |-> Count(kept, {"title_match", "title_complementary"}),
      other    |-> other_count(total, kept) ]

\* Series.isnull().all()
all_null(list, key) == \A i \in 1..Len(list) : list[i][key].kind = "nan"

\* Series.unique().tolist(): the distinct values in order of first appearance
unique(list, key) ==
    LET firsts == SelectSeq([i \in 1..Len(list) |-> i],
                            LAMBDA i : \A j \in 1..(i - 1) : list[j][key] # list[i][key])
    IN  [n \in 1..Len(firsts) |-> list[firsts[n]][key]]

\* truth value of a selectbox result: None is false, NaN (a float) and any
\* non-empty string are true
truthy_value(v) == v.kind = "nan" \/ (v.kind = "str" /\ truthy(v.text))

\* f"{row['first_name']} {row['last_name']}", line 186
conn_name(row) == str(row["first_name"]) \o << " " >> \o str(row["last_name"])

\* lines 175-176
user_node(user_profile_) == user_profile_["title"] \o <<" ","(","Y","o","u",")">>
target_node(target_role, target_company) == target_role \o <<" ","a","t"," ">> \o str(target_company)

\* line 182: synergy_df[synergy_df['company'] == target_company]
\* (NaN == NaN is False)
relevant_connections(kept, target_company) ==
    SelectSeq(kept, LAMBDA c : c["company"].kind = "str" /\ c["company"] = target_company)

\* lines 172-197; the caller has checked that no lookup raises
build_graph(user_profile_, kept, target_company, target_role) ==
    LET rel == relevant_connections(kept, target_company)
        u   == user_node(user_profile_)
        t   == target_node(target_role, target_company)
        idx == 1..Len(rel)
    IN  [ nodes |-> {u, t} \union {conn_name(rel[i]) : i \in idx},
          edges |-> {{u, conn_name(rel[i])} : i \in idx}
                    \union {{conn_name(rel[i]), t} :
                              i \in {n \in idx :
                                       str_in(lower(target_role), lower(rel[n]["position"].text))}} ]

NoGraph == [nodes |-> {}, edges |-> {}]
NoTarget == [company |-> None, role |-> <<>>]
NoCounts == [company |-> 0, industry |-> 0, title |-> 0, other |-> 0]

\* An uncaught exception ends the run (Streamlit shows the traceback).
Raise(name) ==
    /\ pc' = "done"
    /\ outcome' = name

\* line 74
Gate ==
    /\ pc = "start"
    /\ IF gate(uploaded_file, user_profile)
       THEN /\ pc' = "read"
            /\ rendered' = rendered \union {"info_reading"}
            /\ outcome' = outcome
       ELSE /\ pc' = "done"
            /\ rendered' = rendered
            /\ outcome' = "noop"
    /\ UNCHANGED <<user_profile, uploaded_file, file_pos, sep_i, skip_i, df, attempts,
                   connections_list, conn_i, synergistic_connections, calls,
                   synergy_counts, target, graph, fs_vars>>

\* end of one pass through the body of `for skiprows in [0, 3]`
NextSkip ==
    IF skip_i < Len(Skips)
    THEN pc' = "read" /\ skip_i' = skip_i + 1
    ELSE pc' = "outer_check" /\ skip_i' = skip_i

\* lines 83-89: one pass through the try block
Attempt ==
    /\ pc = "read"
    /\ LET sep      == Seps[sep_i]
           skiprows == Skips[skip_i]
           from     == seek(file_pos, 0)
           r        == read_csv(uploaded_file.lines, from, sep, skiprows)
       IN  /\ attempts' = Append(attempts,
                  [ sep |-> sep, skiprows |-> skiprows, from |-> from,
                    shape1 |-> IF r.kind = "df" THEN shape1(r) ELSE -1 ])
           /\ file_pos' = Len(uploaded_file.lines)
           /\ IF r.kind = "df"
              THEN /\ df' = r
                   /\ IF shape1(r) > 1
                      THEN pc' = "outer_check" /\ skip_i' = skip_i   \* break
                      ELSE NextSkip
                   /\ outcome' = outcome
              ELSE IF r.error = "ParserError"
              THEN /\ df' = df                                      \* continue
                   /\ NextSkip
                   /\ outcome' = outcome
              ELSE /\ df' = df                                      \* not caught
                   /\ skip_i' = skip_i
                   /\ Raise(r.error)
    /\ UNCHANGED <<user_profile, uploaded_file, sep_i, connections_list, conn_i,
                   synergistic_connections, calls, synergy_counts, rendered, target,
                   graph, fs_vars>>

\* lines 90-91, and the step of `for sep in [';', ',', '\t']`
OuterCheck ==
    /\ pc = "outer_check"
    /\ IF accepts(df)
       THEN pc' = "parse_check" /\ UNCHANGED <<sep_i, skip_i>>
       ELSE IF sep_i < Len(Seps)
            THEN pc' = "read" /\ sep_i' = sep_i + 1 /\ skip_i' = 1
            ELSE pc' = "parse_check" /\ UNCHANGED <<sep_i, skip_i>>
    /\ UNCHANGED <<user_profile, uploaded_file, file_pos, df, attempts, connections_list,
                   conn_i, synergistic_connections, calls, synergy_counts, rendered,
                   outcome, target, graph, fs_vars>>

\* lines 93-95
ParseCheck ==
    /\ pc = "parse_check"
    /\ IF df.kind = "none" \/ shape1(df) <= 1
       THEN /\ rendered' = rendered \union {"error"}
            /\ outcome' = "ParseFailure"
            /\ pc' = "done"
       ELSE /\ rendered' = rendered
            /\ outcome' = outcome
            /\ pc' = "columns"
    /\ UNCHANGED <<user_profile, uploaded_file, file_pos, sep_i, skip_i, df, attempts,
                   connections_list, conn_i, synergistic_connections, calls,
                   synergy_counts, target, graph, fs_vars>>

\* lines 98-101; assigning 7 names to a frame of another width raises ValueError
SetColumns ==
    /\ pc = "columns"
    /\ \/ /\ shape1(df) # Len(column_names)
          /\ Raise("ValueError")
          /\ UNCHANGED <<df, connections_list, conn_i>>
       \/ /\ shape1(df) = Len(column_names)
          /\ df' = set_columns(df, column_names)
          /\ connections_list' = to_dict(df')
          /\ conn_i' = 1
          /\ pc' = "match"
          /\ outcome' = outcome
    /\ UNCHANGED <<user_profile, uploaded_file, file_pos, sep_i, skip_i, attempts,
                   synergistic_connections, calls, synergy_counts, rendered, target,
                   graph, fs_vars>>

\* lines 103-109: one pass through the loop body
MatchConn ==
    /\ pc = "match"
    /\ conn_i <= Len(connections_list)
    /\ LET conn == connections_list[conn_i]
           c    == find_synergy_call(user_profile, conn)
           kept == c.connection @@ ("synergy" :> c.ret)
       IN  /\ calls' = Append(calls, [user_profile |-> user_profile, connection |-> conn])
           /\ user_profile' = c.user_profile
           /\ IF retains(c.ret)
              THEN /\ connections_list' = [connections_list EXCEPT ![conn_i] = kept]
                   /\ synergistic_connections' = Append(synergistic_connections, kept)
              ELSE /\ connections_list' = [connections_list EXCEPT ![conn_i] = c.connection]
                   /\ synergistic_connections' = synergistic_connections
    /\ conn_i' = conn_i + 1
    /\ UNCHANGED <<uploaded_file, file_pos, pc, sep_i, skip_i, df, attempts,
                   synergy_counts, rendered, outcome, target, graph, fs_vars>>

\* lines 112-151, entered when the loop at line 103 is exhausted
RenderCharts ==
    /\ pc = "match"
    /\ conn_i > Len(connections_list)
    /\ synergy_counts' = make_synergy_counts(connections_list, synergistic_connections)
    /\ rendered' = rendered \union {"synergy_pie"}
          \union (IF synergistic_connections # <<>>
                     /\ ~all_null(synergistic_connections, "company")
                  THEN {"top_companies_pie"} ELSE {})
          \union (IF ~all_null(connections_list, "company")
                  THEN {"all_companies_bar"} ELSE {})
    /\ pc' = "career"
    /\ UNCHANGED <<user_profile, uploaded_file, file_pos, sep_i, skip_i, df, attempts,
                   connections_list, conn_i, synergistic_connections, calls, outcome,
                   target, graph, fs_vars>>

Range(s) == {s[i] : i \in 1..Len(s)}

\* what the operator may type into "Type Your Ideal Role", line 165
TargetRoleInputs == { <<>>, <<"e","n","g","i","n","e","e","r">>, <<"R","e","c","r","u","i","t","e","r">> }

\* lines 158-207: the career-path planner and its graph
Career ==
    /\ pc = "career"
    /\ LET all_companies_list == unique(connections_list, "company")
       IN  \E target_company \in (IF all_companies_list = <<>> THEN {None}
                                  ELSE Range(all_companies_list)),
              target_role \in TargetRoleInputs :
             /\ target' = [company |-> target_company, role |-> target_role]
             /\ IF truthy_value(target_company) /\ truthy(target_role)
                THEN \/ \* line 182: an empty synergy_df has no 'company' column
                        /\ synergistic_connections = <<>>
                        /\ Raise("KeyError")
                        /\ UNCHANGED <<graph, rendered>>
                     \/ \* line 196: conn_title is a float when the position is missing
                        /\ synergistic_connections # <<>>
                        /\ \E c \in Range(relevant_connections(synergistic_connections,
                                                               target_company)) :
                              c["position"].kind = "nan"
                        /\ Raise("AttributeError")
                        /\ UNCHANGED <<graph, rendered>>
                     \/ /\ synergistic_connections # <<>>
                        /\ \A c \in Range(relevant_connections(synergistic_connections,
                                                               target_company)) :
                              c["position"].kind = "str"
                        /\ graph' = build_graph(user_profile, synergistic_connections,
                                                target_company, target_role)
                        /\ rendered' = rendered \union {"graph"}
                        /\ pc' = "details"
                        /\ outcome' = outcome
                ELSE /\ pc' = "details"
                     /\ UNCHANGED <<graph, rendered, outcome>>
    /\ UNCHANGED <<user_profile, uploaded_file, file_pos, sep_i, skip_i, df, attempts,
                   connections_list, conn_i, synergistic_connections, calls,
                   synergy_counts, fs_vars>>

\* lines 212-232
Details ==
    /\ pc = "details"
    /\ rendered' = rendered \union
          (IF synergistic_connections # <<>> THEN {"details"} ELSE {"info_none"})
    /\ outcome' = "ok"
    /\ pc' = "done"
    /\ UNCHANGED <<user_profile, uploaded_file, file_pos, sep_i, skip_i, df, attempts,
                   connections_list, conn_i, synergistic_connections, calls,
                   synergy_counts, target, graph, fs_vars>>

(***************************************************************************)
(* Inputs of a run: the three text inputs and the uploaded file.           *)
(***************************************************************************)
MaxRows == 3

Profile(title, company, industry) ==
    [k \in {"title", "company", "industry"} |->
        CASE k = "title" -> title [] k = "company" -> company [] OTHER -> industry]

CompleteProfiles ==
    { Profile(<<"e","n","g","i","n","e","e","r">>, <<"A","c","m","e">>, <<"s","o","f","t">>),
      Profile(<<" ">>, <<"A","C","M","E"," ">>, <<"a","n">>) }

IncompleteProfiles ==
    { Profile(<<>>, <<"A","c","m","e">>, <<"s","o","f","t">>),
      Profile(<<"e","n","g","i","n","e","e","r">>, <<>>, <<"s","o","f","t">>),
      Profile(<<"e","n","g","i","n","e","e","r">>, <<"A","c","m","e">>, <<>>),
      Profile(<<>>, <<>>, <<>>) }

RECURSIVE Join(_, _)
Join(cells, sep) ==
    IF cells = <<>> THEN <<>>
    ELSE IF Len(cells) = 1 THEN cells[1]
    ELSE cells[1] \o << sep >> \o Join(Tail(cells), sep)

\* header rows: the export's, another wording of it, and a two-column one
ExportHeader == << <<"F","i","r","s","t">>, <<"L","a","s","t">>, <<"U","R","L">>, <<"E","m","a","i","l">>, <<"C","o","m","p","a","n","y">>, <<"P","o","s","i","t","i","o","n">>, <<"C","o","n","n","e","c","t","e","d">> >>

HeaderRows ==
    { ExportHeader,
      << <<"p","o","s","i","t","i","o","n">>, <<"c","o","m","p","a","n","y">>, <<"c">>, <<"d">>, <<"e">>, <<"f">>, <<"g">> >>,
      << <<"N","a","m","e">>, <<"C","o","m","p","a","n","y">> >> }

\* data rows: a full row, a short row with an empty cell, a row without a position
DataRows ==
    { << <<"A","n","n">>, <<"L","e","e">>, <<"u">>, <<"e">>, <<"A","c","m","e">>, <<"S","o","f","t","w","a","r","e"," ","E","n","g","i","n","e","e","r">>, <<"d">> >>,
      << <<"B","o","b">>, <<"R","a","y">>, <<"u">>, <<>>, <<"G","l","o","b","e","x">>, <<"R","e","c","r","u","i","t","e","r">> >>,
      << <<"C","y">>, <<"P","o","e">>, <<"u">>, <<"e">>, <<"A","c","m","e">>, <<>>, <<"d">> >> }

\* a row whose first field opens a quote that is never closed
QuoteRow == << <<"\"","F","l","o">>, <<"D","a","y">>, <<"u">>, <<"e">>, <<"A","c","m","e">>, <<"P","M">>, <<"d">> >>

\* leading metadata lines of an export: none, three, three with a comma in them
NotesPreamble == << <<"N","o","t","e","s",":">>, <<"e","x","p","o","r","t","e","d">>, <<>> >>

Preambles ==
    { <<>>,
      NotesPreamble,
      << <<"N","o","t","e","s",","," ","a">>, <<"e","x","p","o","r","t","e","d">>, <<>> >> }

\* the file's own delimiter; "|" is none of the three the program tries
FileDelimiters == { ";", ",", "\t", "|" }

RowLists == UNION { [1..n -> DataRows] : n \in 0..MaxRows }

\* every preamble and delimiter under the export's header; the other headers
\* with ";" and no preamble; the quote row as a last line of a ";" export
Layouts ==
    { l \in [pre : Preambles, h : HeaderRows, d : FileDelimiters,
             tail : {<<>>, << QuoteRow >>}] :
        \/ l.tail = <<>> /\ (l.h = ExportHeader \/ (l.pre = <<>> /\ l.d = ";"))
        \/ l.tail # <<>> /\ l.h = ExportHeader /\ l.d = ";"
              /\ l.pre \in {<<>>, NotesPreamble} }

FileOf(l, rows) ==
    File(l.pre \o << Join(l.h, l.d) >>
         \o [i \in 1..Len(rows) |-> Join(rows[i], l.d)]
         \o [i \in 1..Len(l.tail) |-> Join(l.tail[i], l.d)])

Files == { FileOf(l, rows) : l \in Layouts, rows \in RowLists }

\* the plain export: its header, ";" between the cells, no preamble
PlainFiles ==
    { FileOf([pre |-> <<>>, h |-> ExportHeader, d |-> ";", tail |-> <<>>], rows) :
        rows \in RowLists }

\* the state of the run's variables before main() has done anything
MainStart ==
    /\ file_pos = 0
    /\ pc = "start"
    /\ sep_i = 1
    /\ skip_i = 1
    /\ df = None
    /\ attempts = <<>>
    /\ connections_list = <<>>
    /\ conn_i = 1
    /\ synergistic_connections = <<>>
    /\ calls = <<>>
    /\ synergy_counts = NoCounts
    /\ rendered = {}
    /\ outcome = "running"
    /\ target = NoTarget
    /\ graph = NoGraph

FsIdle ==
    /\ fs_profile = Profile(<<>>, <<>>, <<>>)
    /\ fs_connection = <<>>
    /\ fs_pc = "idle"
    /\ fs_ret = None
    /\ fs_after = None

Init ==
    /\ \/ /\ user_profile = Profile(<<"e","n","g","i","n","e","e","r">>, <<"A","c","m","e">>, <<"s","o","f","t">>)
          /\ uploaded_file \in Files
       \/ /\ user_profile \in CompleteProfiles
          /\ uploaded_file \in PlainFiles
       \/ /\ user_profile \in CompleteProfiles \union IncompleteProfiles
          /\ uploaded_file \in {None, File(<<>>), File(<< <<"a",";","b">> >>)}
    /\ MainStart
    /\ FsIdle

Next ==
    \/ Gate
    \/ Attempt
    \/ OuterCheck
    \/ ParseCheck
    \/ SetColumns
    \/ MatchConn
    \/ RenderCharts
    \/ Career
    \/ Details

Spec == Init /\ [][Next]_vars

(***************************************************************************)
(* find_synergy on its own: Init draws a profile and a connection, the     *)
(* one action calls the function.                                          *)
(***************************************************************************)
SynergyTitles == { <<>>, <<" ">>, <<"E","n","g","i","n","e","e","r">>, <<" ","P","r","o","d","u","c","t"," ","M","a","n","a","g","e","r">>, <<"d","a","t","a"," ","a","n","a","l","y","s","t">> }
SynergyCompanies == { <<>>, <<" ","A","C","M","E">>, <<"n","a","n">> }
SynergyIndustries == { <<>>, <<"s","o","f","t">>, <<"a","n">> }

SynergyProfiles ==
    { Profile(t, c, i) : t \in SynergyTitles, c \in SynergyCompanies, i \in SynergyIndustries }

\* a dict entry: a string, a missing value, or no entry at all
Absent == [kind |-> "absent", text |-> <<>>]
ConnCompanies ==
    { Absent, NaN, Str(<<>>), Str(<<"A","c","m","e">>), Str(<<" ","a","c","m","e"," ">>), Str(<<"S","o","f","t","c","o">>) }
ConnPositions ==
    { Absent, NaN, Str(<<>>), Str(<<"S","e","n","i","o","r"," ","S","o","f","t","w","a","r","e"," ","E","n","g","i","n","e","e","r">>), Str(<<"R","e","c","r","u","i","t","e","r">>),
      Str(<<"U","X"," ","D","e","s","i","g","n","e","r">>), Str(<<"D","a","t","a"," ","S","c","i","e","n","t","i","s","t"," ">>), Str(<<"E","n","g">>) }

Connection(company, position) ==
    [k \in {"first_name"} \union (IF company.kind = "absent" THEN {} ELSE {"company"})
                          \union (IF position.kind = "absent" THEN {} ELSE {"position"}) |->
        CASE k = "company" -> company [] k = "position" -> position [] OTHER -> Str(<<"A","n","n">>)]

SynergyConnections == { Connection(c, p) : c \in ConnCompanies, p \in ConnPositions }

MainIdle ==
    /\ user_profile = Profile(<<>>, <<>>, <<>>)
    /\ uploaded_file = None
    /\ MainStart

InitSynergy ==
    /\ fs_profile \in SynergyProfiles
    /\ fs_connection \in SynergyConnections
    /\ fs_pc = "call"
    /\ fs_ret = None
    /\ fs_after = None
    /\ MainIdle

CallFindSynergy ==
    /\ fs_pc = "call"
    /\ LET c == find_synergy_call(fs_profile, fs_connection)
       IN  /\ fs_ret' = c.ret
           /\ fs_after' = [user_profile |-> c.user_profile, connection |-> c.connection]
    /\ fs_pc' = "returned"
    /\ UNCHANGED <<fs_profile, fs_connection, main_vars>>

NextSynergy == CallFindSynergy

SpecSynergy == InitSynergy /\ [][NextSynergy]_vars

(***************************************************************************)
(* Reference definitions the properties are stated with.  They are written *)
(* from the wording of the properties, not from the program text.          *)
(***************************************************************************)
RefLowerMap ==
    ("A" :> "a") @@ ("B" :> "b") @@ ("C" :> "c") @@ ("D" :> "d") @@ ("E" :> "e") @@ ("F" :> "f") @@ ("G" :> "g") @@ ("H" :> "h") @@ ("I" :> "i") @@ ("J" :> "j") @@ ("K" :> "k") @@ ("L" :> "l") @@ ("M" :> "m")
    @@ ("N" :> "n") @@ ("O" :> "o") @@ ("P" :> "p") @@ ("Q" :> "q") @@ ("R" :> "r") @@ ("S" :> "s") @@ ("T" :> "t") @@ ("U" :> "u") @@ ("V" :> "v") @@ ("W" :> "w") @@ ("X" :> "x") @@ ("Y" :> "y") @@ ("Z" :> "z")

RefIsSpace(c) == c = " " \/ c = "\t"

\* trimmed, lowercased text
RefNorm(s) ==
    LET keep == {i \in 1..Len(s) : ~RefIsSpace(s[i])}
    IN  IF keep = {} THEN <<>>
        ELSE LET lo == CHOOSE i \in keep : \A j \in keep : i <= j
                 hi == CHOOSE i \in keep : \A j \in keep : j <= i
             IN  [n \in 1..(hi - lo + 1) |->
                    IF s[lo + n - 1] \in DOMAIN RefLowerMap
                    THEN RefLowerMap[s[lo + n - 1]] ELSE s[lo + n - 1]]

\* a occurs in b as a contiguous run
RefContains(a, b) ==
    \E k \in 0..(Len(b) - Len(a)) : \A n \in 1..Len(a) : b[k + n] = a[n]

\* the text find_synergy reads from a connection field: nothing for an absent
\* key, the printed form of the value otherwise
RefText(connection, key) ==
    IF key \notin DOMAIN connection THEN <<>>
    ELSE IF connection[key].kind = "nan" THEN <<"n","a","n">>
    ELSE connection[key].text

RefSynergy(profile, connection) ==
    LET title    == RefNorm(profile["title"])
        company  == RefNorm(profile["company"])
        industry == RefNorm(profile["industry"])
        ccompany == RefNorm(RefText(connection, "company"))
        position == RefNorm(RefText(connection, "position"))
    IN  [ company |-> company # <<>> /\ ccompany # <<>> /\ company = ccompany,
          industry |-> industry # <<>>
                       /\ (RefContains(industry, ccompany) \/ RefContains(industry, position)),
          title_match |-> title # <<>>
                          /\ (RefContains(title, position) \/ RefContains(position, title)),
          title_complementary |->
              /\ title \in DOMAIN complementary_roles
              /\ \E r \in Range(complementary_roles[title]) : RefContains(r, position) ]

FlagNames == {"company", "industry", "title_match", "title_complementary"}

CanonicalFields ==
    << "first_name", "last_name", "url", "email_address", "company", "position",
       "connected_on" >>

\* the six (delimiter, skip) combinations in the stated order
ComboOrder ==
    << [sep |-> ";", skiprows |-> 0], [sep |-> ";", skiprows |-> 3],
       [sep |-> ",", skiprows |-> 0], [sep |-> ",", skiprows |-> 3],
       [sep |-> "\t", skiprows |-> 0], [sep |-> "\t", skiprows |-> 3] >>

\* what parsing the whole input with the i-th combination gives
ParseOf(i) == read_csv(uploaded_file.lines, 0, ComboOrder[i].sep, ComboOrder[i].skiprows)

\* the i-th combination yields strictly more than one column
Good(i) == ParseOf(i).kind = "df" /\ Len(ParseOf(i).columns) > 1

\* the profile is complete and a file is uploaded
GateOpen ==
    /\ uploaded_file.kind = "file"
    /\ user_profile["title"] # <<>>
    /\ user_profile["company"] # <<>>
    /\ user_profile["industry"] # <<>>

\* the contact records have been produced
RecordsProduced ==
    \/ pc \in {"match", "career", "details"}
    \/ pc = "done" /\ outcome \in {"ok", "KeyError", "AttributeError"}

\* the analysis pass over the contacts is complete
PassDone ==
    \/ pc \in {"career", "details"}
    \/ pc = "done" /\ outcome \in {"ok", "KeyError", "AttributeError"}

\* a contact record without its annotation
Bare(conn) == [k \in DOMAIN conn \ {"synergy"} |-> conn[k]]

AnyFlag(s) == \E f \in FlagNames : s[f]

(***************************************************************************)
(* C1.  The read attempts made so far are always a prefix of the fixed     *)
(* order (';',0), (';',3), (',',0), (',',3), (tab,0), (tab,3), each made   *)
(* from read position 0; there are at most 6; no attempt follows one that  *)
(* returned more than one column; and when the run goes on with a table,   *)
(* that table is the parse of the first combination in the order whose     *)
(* parse has more than one column, and that combination was the last one   *)
(* attempted.                                                              *)
(***************************************************************************)
InvC1 ==
    /\ Len(attempts) <= 6
    /\ \A i \in 1..Len(attempts) :
          /\ attempts[i].sep = ComboOrder[i].sep
          /\ attempts[i].skiprows = ComboOrder[i].skiprows
          /\ attempts[i].from = 0
    /\ \A i \in 1..(Len(attempts) - 1) : attempts[i].shape1 <= 1
    /\ pc = "columns" =>
          LET n      == Len(attempts)
              parses == [i \in 1..n |-> ParseOf(i)]
              good   == {i \in 1..n : parses[i].kind = "df" /\ Len(parses[i].columns) > 1}
          IN  /\ good = {n}
              /\ df = parses[n]

\* C1 witness: a table is used that the fourth combination (',', 3) produced,
\* after three attempts that did not give more than one column
WitC1 ==
    /\ pc = "columns"
    /\ Len(attempts) = 4
    /\ \E i \in 1..3 : attempts[i].shape1 = 1
    /\ Len(df.rows) >= 1

(***************************************************************************)
(* C2.  A run that has started reading and ended, on an input for which    *)
(* none of the six combinations yields more than one column (each gives at *)
(* most one column or raises), has ended in ParseFailure: the error        *)
(* message is shown, no records exist, find_synergy was not called and     *)
(* nothing else was rendered.                                              *)
(***************************************************************************)
InvC2 ==
    (pc = "done" /\ GateOpen /\ \A i \in 1..6 : ~Good(i)) =>
        /\ outcome = "ParseFailure"
        /\ "error" \in rendered
        /\ connections_list = <<>>
        /\ calls = <<>>
        /\ rendered \subseteq {"info_reading", "error"}

\* C2: the part of the claim the program does keep: whenever a run ends in
\* ParseFailure nothing was produced, and no combination was good
InvC2ParseFailure ==
    outcome = "ParseFailure" =>
        /\ \A i \in 1..6 : ~Good(i)
        /\ Len(attempts) = 6
        /\ rendered = {"info_reading", "error"}
        /\ connections_list = <<>> /\ calls = <<>> /\ graph = NoGraph

(***************************************************************************)
(* C3.  Once contact records are produced, there is one per parsed row,    *)
(* in row order, and each has exactly the 7 canonical fields, the i-th     *)
(* field holding the value of the i-th parsed column.                      *)
(***************************************************************************)
InvC3 ==
    RecordsProduced =>
        /\ Len(connections_list) = Len(df.rows)
        /\ \A i \in 1..Len(connections_list) :
              /\ DOMAIN Bare(connections_list[i]) = Range(CanonicalFields)
              /\ \A j \in 1..7 : connections_list[i][CanonicalFields[j]] = df.rows[i][j]

\* C3 witness: two records produced from a file whose header text names the
\* columns differently (its first column is headed "position")
WitC3 ==
    /\ RecordsProduced
    /\ Len(connections_list) = 2
    /\ ParseOf(Len(attempts)).columns[1] = <<"p","o","s","i","t","i","o","n">>
    /\ connections_list[1]["first_name"] = Str(<<"A","n","n">>)
    /\ connections_list[2]["first_name"] = Str(<<"C","y">>)

(***************************************************************************)
(* C4.  find_synergy returns exactly the four flags, each equal to its     *)
(* reference definition over the trimmed, lowercased text of the fields;   *)
(* a profile whose title is empty gets neither title flag.                 *)
(***************************************************************************)
InvC4 ==
    fs_pc = "returned" =>
        /\ DOMAIN fs_ret = FlagNames
        /\ fs_ret = RefSynergy(fs_profile, fs_connection)
        /\ RefNorm(fs_profile["title"]) = <<>> =>
              ~fs_ret.title_match /\ ~fs_ret.title_complementary

\* C4 witness: title_match set because the position is a substring of the
\* title, not the other way round
WitC4 ==
    /\ fs_pc = "returned"
    /\ fs_ret.title_match
    /\ "position" \in DOMAIN fs_connection
    /\ fs_connection["position"] = Str(<<"E","n","g">>)
    /\ ~RefContains(RefNorm(fs_profile["title"]), <<"e","n","g">>)

(***************************************************************************)
(* C5.  A missing connection field (no key, or a missing value) counts as  *)
(* the empty string: find_synergy returns what it returns for the same     *)
(* connection with the field set to ''.                                    *)
(***************************************************************************)
MissingAsEmpty(connection) ==
    [k \in DOMAIN connection \union {"company", "position"} |->
        IF k \notin DOMAIN connection \/ connection[k].kind = "nan"
        THEN Str(<<>>) ELSE connection[k]]

InvC5 ==
    fs_pc = "returned" => fs_ret = find_synergy(fs_profile, MissingAsEmpty(fs_connection))

\* C5: the part the program keeps: an absent key is read as ''
InvC5AbsentKey ==
    (fs_pc = "returned" /\ \A k \in DOMAIN fs_connection : fs_connection[k].kind # "nan")
        => fs_ret = find_synergy(fs_profile, MissingAsEmpty(fs_connection))

(***************************************************************************)
(* C6.  Changing the case of a letter, or adding leading or trailing       *)
(* whitespace, in any of the five compared fields leaves the four flags    *)
(* unchanged; and the call leaves both argument objects as they were.      *)
(***************************************************************************)
OtherCase(c) ==
    IF c \in DOMAIN RefLowerMap THEN RefLowerMap[c]
    ELSE IF \E u \in DOMAIN RefLowerMap : RefLowerMap[u] = c
         THEN CHOOSE u \in DOMAIN RefLowerMap : RefLowerMap[u] = c
         ELSE c

\* the texts one such change away from s
Respelled(s) ==
    { [s EXCEPT ![i] = OtherCase(s[i])] : i \in 1..Len(s) }
    \union { [i \in 1..Len(s) |-> OtherCase(s[i])] }
    \union { << " " >> \o s, s \o << " " >>, << "\t" >> \o s \o << " ", " " >> }

RespelledProfiles(profile) ==
    UNION { { [profile EXCEPT ![k] = t] : t \in Respelled(profile[k]) } :
              k \in DOMAIN profile }

RespelledConnections(connection) ==
    UNION { { [connection EXCEPT ![k] = Str(t)] : t \in Respelled(connection[k].text) } :
              k \in {f \in DOMAIN connection \cap {"company", "position"} :
                        connection[f].kind = "str"} }

InvC6 ==
    fs_pc = "returned" =>
        /\ \A p \in RespelledProfiles(fs_profile) : find_synergy(p, fs_connection) = fs_ret
        /\ \A c \in RespelledConnections(fs_connection) : find_synergy(fs_profile, c) = fs_ret
        /\ fs_after.user_profile = fs_profile
        /\ fs_after.connection = fs_connection

\* C6 witness: a company match between " ACME" and " acme "
WitC6 ==
    /\ fs_pc = "returned"
    /\ fs_ret.company
    /\ fs_profile["company"] = <<" ","A","C","M","E">>
    /\ "company" \in DOMAIN fs_connection
    /\ fs_connection["company"] = Str(<<" ","a","c","m","e"," ">>)

(***************************************************************************)
(* C7.  After the pass over the contacts, the retained list holds exactly  *)
(* the contacts with at least one true flag, in row order, each annotated  *)
(* with its four flags; the others carry no annotation; and the 'Other'    *)
(* count is the number of contacts minus the number retained.              *)
(***************************************************************************)
InvC7 ==
    PassDone =>
        LET n     == Len(connections_list)
            flags == [i \in 1..n |-> RefSynergy(user_profile, Bare(connections_list[i]))]
            keep  == {i \in 1..n : AnyFlag(flags[i])}
            order == SelectSeq([i \in 1..n |-> i], LAMBDA i : i \in keep)
        IN  /\ Len(synergistic_connections) = Len(order)
            /\ \A k \in 1..Len(order) :
                  /\ Bare(synergistic_connections[k]) = Bare(connections_list[order[k]])
                  /\ "synergy" \in DOMAIN synergistic_connections[k]
                  /\ synergistic_connections[k]["synergy"] = flags[order[k]]
            /\ \A i \in 1..n :
                  IF i \in keep
                  THEN /\ "synergy" \in DOMAIN connections_list[i]
                       /\ connections_list[i]["synergy"] = flags[i]
                  ELSE "synergy" \notin DOMAIN connections_list[i]
            /\ synergy_counts.other = n - Len(synergistic_connections)

\* C7 witness: of two contacts the second is retained with exactly one flag
\* true and the first is dropped
WitC7 ==
    /\ PassDone
    /\ Len(connections_list) = 2
    /\ Len(synergistic_connections) = 1
    /\ "synergy" \notin DOMAIN connections_list[1]
    /\ Cardinality({f \in FlagNames : synergistic_connections[1]["synergy"][f]}) = 1
    /\ synergy_counts.other = 1

(***************************************************************************)
(* C8.  With an empty profile field or no file the run does nothing: no    *)
(* read attempt, no find_synergy call, nothing rendered, no error.         *)
(***************************************************************************)
InvC8 ==
    ~GateOpen =>
        /\ attempts = <<>>
        /\ calls = <<>>
        /\ rendered = {}
        /\ outcome \in {"running", "noop"}
        /\ df = None /\ connections_list = <<>> /\ graph = NoGraph
        /\ pc \in {"start", "done"}

\* C8 witness: a finished run with a file and a title but no industry
WitC8 ==
    /\ pc = "done"
    /\ outcome = "noop"
    /\ uploaded_file.kind = "file"
    /\ user_profile["title"] # <<>>
    /\ user_profile["industry"] = <<>>

(***************************************************************************)
(* C9.  When a pass has a selected target company and a non-empty target   *)
(* role, the graph is built without failure: its nodes are the operator,   *)
(* the target, and the retained contacts at the target company; its edges  *)
(* join the operator to each such contact, and such a contact to the       *)
(* target exactly when its position contains the role, case-insensitively. *)
(***************************************************************************)
AtTarget ==
    {i \in 1..Len(synergistic_connections) :
        synergistic_connections[i]["company"] = target.company}

InvC9 ==
    (PassDone /\ pc \in {"details", "done"}
       /\ target.company.kind \in {"str", "nan"} /\ target.role # <<>>) =>
        /\ outcome \notin {"KeyError", "AttributeError"}
        /\ graph.nodes =
              {user_node(user_profile), target_node(target.role, target.company)}
              \union {conn_name(synergistic_connections[i]) : i \in AtTarget}
        /\ graph.edges =
              {{user_node(user_profile), conn_name(synergistic_connections[i])} : i \in AtTarget}
              \union
              {{conn_name(synergistic_connections[i]),
                target_node(target.role, target.company)} :
                 i \in {n \in AtTarget :
                          RefContains(RefNorm(target.role),
                                      RefNorm(RefText(synergistic_connections[n], "position")))}}

(***************************************************************************)
(* C10.  In every find_synergy call main makes, the three profile fields   *)
(* are non-empty after trimming and lowercasing.                           *)
(***************************************************************************)
InvC10 ==
    \A n \in 1..Len(calls) :
        \A k \in {"title", "company", "industry"} :
            RefNorm(calls[n].user_profile[k]) # <<>>

\* C10: what the gate does ensure: the fields as typed are non-empty
InvC10Raw ==
    \A n \in 1..Len(calls) :
        \A k \in {"title", "company", "industry"} : calls[n].user_profile[k] # <<>>

====
